---- MODULE Spec2Model ----
(***************************************************************************)
(* Model of crates/matrix-sdk-indexeddb/src/crypto_store/migrations.rs:    *)
(* open_and_upgrade_db and the schema steps, the data migration to the     *)
(* new inbound-group-session store (prepare_data_for_v7) and the key       *)
(* fix-up (prepare_data_for_v8), run against an IndexedDB database whose   *)
(* version, object-store catalog and records persist across crashes.       *)
(***************************************************************************)
EXTENDS Integers, FiniteSets, Sequences, TLC

\* Number of distinct (room_id, session_id) pairs a store may hold.
NumSessions == 2

LogicalKeys == 1..NumSessions

\* Physical keys are ordered (an IndexedDB cursor walks them in key order).
MaxKey == 2 * NumSessions

Keys == 1..MaxKey

\* ---- object store names -------------------------------------------------
INBOUND_GROUP_SESSIONS_V1 == "inbound_group_sessions"

INBOUND_GROUP_SESSIONS_V2 == "inbound_group_sessions2"

V1Stores ==
    {"core", "session", INBOUND_GROUP_SESSIONS_V1, "outbound_group_sessions",
     "tracked_users", "olm_hashes", "devices", "identities", "backup_keys"}

SupersededStores ==
    {"outgoing_secret_requests", "unsent_secret_requests", "secret_requests_by_info"}

\* ---- key codec -----------------------------------------------------------
\* IndexeddbSerializer::encode_key: without a store cipher the key is the
\* encoded tuple alone (the table name plays no part); with a cipher it is a
\* keyed hash of table name and tuple.  The three "hash" codecs are three
\* secrets giving different orders of legacy and canonical keys.
UniqueCodecs == {"none", "hashA", "hashB", "hashC"}

\* Residual hash collisions: every canonical key equal ("clashNew"), or the
\* canonical key of one session equal to the legacy key of another
\* ("clashCross").
ResidualCodecs == {"clashNew", "clashCross"}

encode_key(c, table, lk) ==
    CASE c = "none"  -> lk
      [] c = "hashA" -> IF table = INBOUND_GROUP_SESSIONS_V1 THEN lk ELSE NumSessions + lk
      [] c = "hashB" -> IF table = INBOUND_GROUP_SESSIONS_V1 THEN NumSessions + lk ELSE lk
      [] c = "hashC" -> IF table = INBOUND_GROUP_SESSIONS_V1
                          THEN 2 * lk
                          ELSE 2 * (NumSessions - lk) + 1
      [] c = "clashNew" -> IF table = INBOUND_GROUP_SESSIONS_V1 THEN lk ELSE NumSessions + 1
      [] c = "clashCross" -> IF table = INBOUND_GROUP_SESSIONS_V1
                               THEN lk
                               ELSE (lk % NumSessions) + 1

\* ---- record codec --------------------------------------------------------
None == [none |-> TRUE]

\* A stored value that deserialize_value / from_pickle rejects.
Corrupt == [corrupt |-> TRUE]

\* A pickled InboundGroupSession: its logical key and its backed_up flag.
Pickle(lk, bu) == [lk |-> lk, backed_up |-> bu]

Pickles == {Pickle(lk, bu) : lk \in LogicalKeys, bu \in BOOLEAN}

\* A plausible slip: the flag copied instead of negated.
IdbObjectFlagCopied(p) == [pickled_session |-> p, needs_backup |-> p.backed_up]

\* InboundGroupSessionIndexedDbObject built from a session.
IdbObject(p) == [pickled_session |-> p, needs_backup |-> ~p.backed_up]

\* ---- tables --------------------------------------------------------------
EmptyTable == [k \in Keys |-> None]

Put(t, k, v) == [t EXCEPT ![k] = v]

Del(t, k) == [t EXCEPT ![k] = None]

Count(t) == Cardinality({k \in Keys : t[k] # None})

\* The first key strictly after k that holds a record, 0 when there is none:
\* open_cursor is NextKey(t, 0), continue_cursor is NextKey(t, current).
NextKey(t, k) ==
    IF \E x \in Keys : x > k /\ t[x] # None
      THEN CHOOSE x \in Keys : /\ x > k /\ t[x] # None
                               /\ \A y \in Keys : (y > k /\ t[y] # None) => x <= y
      ELSE 0

\* ---- schema steps (run inside a versionchange transaction) ---------------
\* A schema state is [stores, igs1, igs2, err]: the catalog, the records of
\* the two inbound-group-session stores, and whether a step has thrown.

\* IdbDatabase::create_object_store: ConstraintError when the name exists.
\* (db is s, bound so that a chain of store operations is evaluated once.)
create_object_store(s, n) ==
    CHOOSE r \in {IF db.err THEN db
                  ELSE IF n \in db.stores THEN [db EXCEPT !.err = TRUE]
                  ELSE [db EXCEPT !.stores = @ \cup {n}] : db \in {s}} : TRUE

\* IdbDatabase::delete_object_store: NotFoundError when the name is missing;
\* the records of the store go with it.
delete_object_store(s, n) ==
    CHOOSE r \in {IF db.err THEN db
                  ELSE IF n \notin db.stores THEN [db EXCEPT !.err = TRUE]
                  ELSE [db EXCEPT
                          !.stores = @ \ {n},
                          !.igs1 = IF n = INBOUND_GROUP_SESSIONS_V1 THEN EmptyTable ELSE @,
                          !.igs2 = IF n = INBOUND_GROUP_SESSIONS_V2 THEN EmptyTable ELSE @]
                  : db \in {s}} : TRUE

migrate_stores_to_v1(s) ==
    LET a == create_object_store(s, "core")
        b == create_object_store(a, "session")
        c == create_object_store(b, INBOUND_GROUP_SESSIONS_V1)
        d == create_object_store(c, "outbound_group_sessions")
        e == create_object_store(d, "tracked_users")
        f == create_object_store(e, "olm_hashes")
        g == create_object_store(f, "devices")
        h == create_object_store(g, "identities")
    IN  create_object_store(h, "backup_keys")

migrate_stores_to_v2(s) ==
    LET a == delete_object_store(s, INBOUND_GROUP_SESSIONS_V1)
        b == create_object_store(a, INBOUND_GROUP_SESSIONS_V1)
    IN  create_object_store(b, "room_settings")

\* A plausible slip: step 3 copied from step 2 with the store name left.
migrate_stores_to_v3_legacy(s) ==
    LET a == delete_object_store(s, INBOUND_GROUP_SESSIONS_V1)
        b == create_object_store(a, INBOUND_GROUP_SESSIONS_V1)
    IN  create_object_store(b, "direct_withheld_info")

migrate_stores_to_v3(s) ==
    LET a == delete_object_store(s, "outbound_group_sessions")
        b == create_object_store(a, "outbound_group_sessions")
    IN  create_object_store(b, "direct_withheld_info")

migrate_stores_to_v4(s) == create_object_store(s, "secrets_inbox")

\* A plausible change: each superseded store deleted if it is there.
migrate_stores_to_v5_each(s) ==
    LET a == create_object_store(s, "gossip_requests")
    IN  IF a.err THEN a ELSE [a EXCEPT !.stores = @ \ SupersededStores]

\* A plausible slip: the superseded secret-request stores left in place.
migrate_stores_to_v5_keep_old(s) == create_object_store(s, "gossip_requests")

migrate_stores_to_v5(s) ==
    LET a == create_object_store(s, "gossip_requests")
    IN  IF ~a.err /\ "outgoing_secret_requests" \in a.stores
          THEN LET b == delete_object_store(a, "outgoing_secret_requests")
                   c == delete_object_store(b, "unsent_secret_requests")
               IN  delete_object_store(c, "secret_requests_by_info")
          ELSE a

migrate_stores_to_v6(s) == create_object_store(s, INBOUND_GROUP_SESSIONS_V2)

migrate_stores_to_v7(s) == delete_object_store(s, INBOUND_GROUP_SESSIONS_V1)

\* A plausible slip: `old_version < 3` on line 101.
upgrade_to_v6_step4_below3(oldv, s) ==
    LET s1 == IF s.stores = {} THEN migrate_stores_to_v1(s) ELSE s
        s2 == IF oldv < 2 THEN migrate_stores_to_v2(s1) ELSE s1
        s3 == IF oldv < 3 THEN migrate_stores_to_v3(s2) ELSE s2
        s4 == IF oldv < 3 THEN migrate_stores_to_v4(s3) ELSE s3
        s5 == IF oldv < 5 THEN migrate_stores_to_v5(s4) ELSE s4
    IN  IF oldv < 6 THEN migrate_stores_to_v6(s5) ELSE s5

\* The upgrade-needed callback of migrate_schema_up_to_v6, given the
\* old_version of the upgrade event.  A step that has thrown ends the
\* callback: the store operations above do nothing once err is set.
upgrade_to_v6(oldv, s) ==
    LET s1 == IF s.stores = {} THEN migrate_stores_to_v1(s) ELSE s
        s2 == IF oldv < 2 THEN migrate_stores_to_v2(s1) ELSE s1
        s3 == IF oldv < 3 THEN migrate_stores_to_v3(s2) ELSE s2
        s4 == IF oldv < 4 THEN migrate_stores_to_v4(s3) ELSE s3
        s5 == IF oldv < 5 THEN migrate_stores_to_v5(s4) ELSE s4
    IN  IF oldv < 6 THEN migrate_stores_to_v6(s5) ELSE s5

\* A plausible slip: `old_version < 6` on line 134.
upgrade_to_v7_below6(oldv, s) == IF oldv < 6 THEN migrate_stores_to_v7(s) ELSE s

\* The upgrade-needed callback of migrate_schema_for_v7.
upgrade_to_v7(oldv, s) == IF oldv < 7 THEN migrate_stores_to_v7(s) ELSE s

\* migrate_schema_for_v8 installs no callback: the catalog is left alone.
upgrade_to_v8(oldv, s) == s

\* ---- the two data passes, one record at a time ---------------------------
\* A batch state is [igs1, igs2, cursor, err]: the transaction's view of the
\* two stores, the key the cursor stands on (0: exhausted) and whether the
\* pass has failed.

\* A plausible change: the key rebuilt from the session's room and session
\* id instead of taken from the cursor.
v7_record_rekey(t) ==
    LET key      == t.cursor
        value    == t.igs1[key]
    IN  IF value = Corrupt
          THEN [t EXCEPT !.err = TRUE]
          ELSE LET new_data == IdbObject(value)
                   new_key  == value.lk
               IN  IF t.igs2[new_key] # None
                     THEN [t EXCEPT !.err = TRUE]
                     ELSE LET old == Del(t.igs1, key)
                          IN  [t EXCEPT !.igs2 = Put(@, new_key, new_data),
                                        !.igs1 = old,
                                        !.cursor = NextKey(old, key)]

\* A plausible slip: the original is copied and never deleted (line 295
\* left out).
v7_record_no_delete(t) ==
    LET key      == t.cursor
        value    == t.igs1[key]
    IN  IF value = Corrupt
          THEN [t EXCEPT !.err = TRUE]
          ELSE LET new_data == IdbObject(value)
               IN  IF t.igs2[key] # None
                     THEN [t EXCEPT !.err = TRUE]
                     ELSE [t EXCEPT !.igs2 = Put(@, key, new_data),
                                    !.cursor = NextKey(t.igs1, key)]

\* A plausible slip: an undecodable record skipped (`continue`) instead of
\* returned as an error.
v7_record_skip(t) ==
    LET key      == t.cursor
        value    == t.igs1[key]
    IN  IF value = Corrupt
          THEN [t EXCEPT !.cursor = NextKey(t.igs1, key)]
          ELSE LET new_data == IdbObject(value)
               IN  IF t.igs2[key] # None
                     THEN [t EXCEPT !.err = TRUE]
                     ELSE LET old == Del(t.igs1, key)
                          IN  [t EXCEPT !.igs2 = Put(@, key, new_data),
                                        !.igs1 = old,
                                        !.cursor = NextKey(old, key)]

\* One turn of the loop of prepare_data_for_v7.
\* new_store.add_key_val(&key, &new_data)?: the re-encoded record goes into
\* the new table under the cursor's key; an occupied key is an error.
v7_add_key_val(t) ==
    LET key      == t.cursor
        new_data == IdbObject(t.igs1[key])
    IN  IF t.igs2[key] # None
          THEN [t EXCEPT !.err = TRUE]
          ELSE [t EXCEPT !.igs2 = Put(@, key, new_data)]

\* cursor.delete()?: the record under the cursor leaves the legacy table.
v7_cursor_delete(t) ==
    IF t.err THEN t ELSE [t EXCEPT !.igs1 = Del(@, t.cursor)]

\* cursor.continue_cursor()?: the cursor moves to the next legacy key.
v7_continue_cursor(t) ==
    IF t.err THEN t ELSE [t EXCEPT !.cursor = NextKey(t.igs1, t.cursor)]

\* The claimed order of the three calls: delete, insert, advance.
v7_calls_delete_first(t) ==
    LET a == v7_cursor_delete(t)
        b == IF a.igs2[a.cursor] # None
               THEN [a EXCEPT !.err = TRUE]
               ELSE [a EXCEPT !.igs2 = Put(@, a.cursor, IdbObject(t.igs1[t.cursor]))]
        c == v7_continue_cursor(b)
    IN  <<a, b, c>>

\* The batch after each of the three calls the loop body makes for a
\* record that decodes, in the order the body makes them.
v7_calls(t) ==
    LET a == v7_add_key_val(t)
        b == v7_cursor_delete(a)
        c == v7_continue_cursor(b)
    IN  <<a, b, c>>

v7_record(t) ==
    IF t.igs1[t.cursor] = Corrupt
      THEN [t EXCEPT !.err = TRUE]
      ELSE v7_calls(t)[3]

\* A plausible slip: the new key computed with the legacy table's name.
new_key_legacy_name(c, session) == encode_key(c, INBOUND_GROUP_SESSIONS_V1, session.lk)

\* Lines 357-360: the key the record should be stored under.
new_key_for(c, session) == encode_key(c, INBOUND_GROUP_SESSIONS_V2, session.lk)

\* A plausible fault: the record re-inserted under the key that follows the
\* cursor, not under its canonical key.
relocate_ahead(table, old_key, new_key, idb_object) ==
    LET deleted   == Del(table, old_key)
        ahead     == (old_key % MaxKey) + 1
    IN  IF deleted[ahead] = None
          THEN Put(deleted, ahead,
                   [pickled_session |-> idb_object.pickled_session,
                    needs_backup |-> idb_object.needs_backup])
          ELSE deleted

\* A plausible slip: the object rebuilt from the session with needs_backup
\* set, instead of the stored object written back.
relocate_flag_reset(table, old_key, new_key, idb_object) ==
    LET deleted   == Del(table, old_key)
        new_value == deleted[new_key]
    IN  IF new_value = None
          THEN Put(deleted, new_key,
                   [pickled_session |-> idb_object.pickled_session,
                    needs_backup |-> TRUE])
          ELSE deleted

\* A plausible change: the record under the wrong key merged into the entry
\* found under the right key (needs_backup if either needs it).
relocate_merge(table, old_key, new_key, idb_object) ==
    LET deleted   == Del(table, old_key)
        new_value == deleted[new_key]
    IN  IF new_value = None
          THEN Put(deleted, new_key,
                   [pickled_session |-> idb_object.pickled_session,
                    needs_backup |-> idb_object.needs_backup])
          ELSE IF new_value = Corrupt THEN deleted
          ELSE Put(deleted, new_key,
                   [new_value EXCEPT !.needs_backup = @ \/ idb_object.needs_backup])

\* A plausible slip: put_key_val without the check for an existing entry.
relocate_overwrite(table, old_key, new_key, idb_object) ==
    Put(Del(table, old_key), new_key, idb_object)

\* A plausible slip: the entry under the wrong key is never deleted.
relocate_copy(table, old_key, new_key, idb_object) ==
    IF table[new_key] = None THEN Put(table, new_key, idb_object) ELSE table

\* A plausible slip: the entry is deleted and never written back.
relocate_drop(table, old_key, new_key, idb_object) == Del(table, old_key)

\* Lines 366-380: delete the entry under the wrong key, and create one under
\* the right key unless there is one already.
relocate(table, old_key, new_key, idb_object) ==
    LET deleted   == Del(table, old_key)
        new_value == deleted[new_key]
    IN  IF new_value = None
          THEN Put(deleted, new_key,
                   [pickled_session |-> idb_object.pickled_session,
                    needs_backup |-> idb_object.needs_backup])
          ELSE deleted

\* A plausible fault: after a relocation the cursor loses its place and
\* passes over the record that follows.
v8_record_skip_next(c, t) ==
    LET old_key    == t.cursor
        idb_object == t.igs2[old_key]
    IN  IF idb_object = Corrupt
          THEN [t EXCEPT !.err = TRUE]
          ELSE LET new_key == new_key_for(c, idb_object.pickled_session)
                   fixed   == IF new_key # old_key
                                THEN relocate(t.igs2, old_key, new_key, idb_object)
                                ELSE t.igs2
                   next    == NextKey(fixed, old_key)
               IN  [t EXCEPT !.igs2 = fixed,
                             !.cursor = IF new_key # old_key /\ next # 0
                                          THEN NextKey(fixed, next)
                                          ELSE next]

\* One turn of the loop of prepare_data_for_v8 under codec c.
v8_record(c, t) ==
    LET old_key    == t.cursor
        idb_object == t.igs2[old_key]
    IN  IF idb_object = Corrupt
          THEN [t EXCEPT !.err = TRUE]
          ELSE LET new_key == new_key_for(c, idb_object.pickled_session)
                   fixed   == IF new_key # old_key
                                THEN relocate(t.igs2, old_key, new_key, idb_object)
                                ELSE t.igs2
               IN  [t EXCEPT !.igs2 = fixed, !.cursor = NextKey(fixed, old_key)]

\* ---- state ---------------------------------------------------------------
VARIABLES
    codec,        \* the serializer's key codec (fixed for a store)
    version,      \* persisted database version, 0 when the database is absent
    stores,       \* persisted catalog of object store names
    igs1,         \* persisted records of inbound_group_sessions
    igs2,         \* persisted records of inbound_group_sessions2
    pc,           \* where the running open_and_upgrade_db call stands
    old_version,  \* the local old_version of open_and_upgrade_db
    handles,      \* number of open IdbDatabase handles
    txn,          \* the transaction in progress, NoTxn when there is none
    cursor,       \* key under the cursor of the running pass, 0 when none
    store0,       \* history: the store before the first call
    seen6,        \* history: the legacy records when version 6 was committed
    log,          \* history: what the current call has committed, in order
    failed,       \* history: the sub-step at which the current call failed
    lastCrash     \* history: where the last termination hit

persisted == <<version, stores, igs1, igs2>>

history == <<store0, seen6>>

vars == <<codec, version, stores, igs1, igs2, pc, old_version, handles, txn,
          cursor, store0, seen6, log, failed, lastCrash>>

NoTxn == [active |-> FALSE, stores |-> {}, igs1 |-> EmptyTable, igs2 |-> EmptyTable]

SnapTxn == [active |-> TRUE, stores |-> stores, igs1 |-> igs1, igs2 |-> igs2]

\* ---- catalogs and contents a store in the field can have ------------------
\* The catalog the schema steps up to v produce from an empty database.
CatalogAt(v) ==
    LET s0 == [stores |-> {}, igs1 |-> EmptyTable, igs2 |-> EmptyTable, err |-> FALSE]
        s6 == upgrade_to_v6(1, s0).stores
    IN  CASE v = 0 -> {}
          [] v = 1 -> V1Stores
          [] v = 2 -> V1Stores \cup {"room_settings"}
          [] v = 3 -> V1Stores \cup {"room_settings", "direct_withheld_info"}
          [] v = 4 -> V1Stores \cup {"room_settings", "direct_withheld_info", "secrets_inbox"}
          [] v = 5 -> s6 \ {INBOUND_GROUP_SESSIONS_V2}
          [] v = 6 -> s6
          [] OTHER -> s6 \ {INBOUND_GROUP_SESSIONS_V1}

\* What one session has in a table: nothing, an undecodable value, or a
\* pickle with either backed-up flag.
Slots == {"absent", "corrupt", "backed_up", "not_backed_up"}

SlotPickle(lk, slot) ==
    CASE slot = "corrupt"   -> Corrupt
      [] slot = "backed_up" -> Pickle(lk, TRUE)
      [] OTHER              -> Pickle(lk, FALSE)

SlotObject(lk, slot) == IF slot = "corrupt" THEN Corrupt ELSE IdbObject(SlotPickle(lk, slot))

\* The legacy store with each session written under its legacy key.
LegacyTable(c, g) ==
    [k \in Keys |->
        IF \E lk \in LogicalKeys :
              g[lk] # "absent" /\ encode_key(c, INBOUND_GROUP_SESSIONS_V1, lk) = k
          THEN LET lk == CHOOSE x \in LogicalKeys :
                            g[x] # "absent" /\ encode_key(c, INBOUND_GROUP_SESSIONS_V1, x) = k
               IN  SlotPickle(lk, g[lk])
          ELSE None]

\* The new store with records the data migration left under legacy keys
\* (stale) and records the application wrote under canonical keys (fresh).
NewTable(c, stale, fresh) ==
    [k \in Keys |->
        IF \E lk \in LogicalKeys :
              fresh[lk] # "absent" /\ encode_key(c, INBOUND_GROUP_SESSIONS_V2, lk) = k
          THEN LET lk == CHOOSE x \in LogicalKeys :
                            fresh[x] # "absent" /\ encode_key(c, INBOUND_GROUP_SESSIONS_V2, x) = k
               IN  SlotObject(lk, fresh[lk])
          ELSE IF \E lk \in LogicalKeys :
              stale[lk] # "absent" /\ encode_key(c, INBOUND_GROUP_SESSIONS_V1, lk) = k
          THEN LET lk == CHOOSE x \in LogicalKeys :
                            stale[x] # "absent" /\ encode_key(c, INBOUND_GROUP_SESSIONS_V1, x) = k
               IN  SlotObject(lk, stale[lk])
          ELSE None]

NoSlots == [lk \in LogicalKeys |-> "absent"]

InitStore(codecs) ==
    /\ codec \in codecs
    /\ \/ /\ version = 0
          /\ stores = {}
          /\ igs1 = EmptyTable /\ igs2 = EmptyTable
       \/ /\ version \in 1..5
          /\ \E old \in {{}, SupersededStores} :
                stores = CatalogAt(version) \cup (IF version < 5 THEN old ELSE {})
          /\ \E g \in [LogicalKeys -> Slots] : igs1 = LegacyTable(codec, g)
          /\ igs2 = EmptyTable
       \/ /\ version = 7
          /\ stores = CatalogAt(7)
          /\ igs1 = EmptyTable
          /\ \E stale, fresh \in [LogicalKeys -> Slots] : igs2 = NewTable(codec, stale, fresh)
       \/ /\ version \in {8, 9}
          /\ stores = CatalogAt(version)
          /\ igs1 = EmptyTable
          /\ \E fresh \in [LogicalKeys -> Slots] : igs2 = NewTable(codec, NoSlots, fresh)
    /\ pc = "idle"
    /\ old_version = 0
    /\ handles = 0
    /\ txn = NoTxn
    /\ cursor = 0
    /\ store0 = [version |-> version, stores |-> stores, igs1 |-> igs1, igs2 |-> igs2]
    /\ seen6 = EmptyTable
    /\ log = <<>>
    /\ failed = "none"
    /\ lastCrash = "none"

\* Any codec, residual collisions included.
Init == InitStore(UniqueCodecs \cup ResidualCodecs)

\* ---- open_and_upgrade_db, step by step -----------------------------------
\* A plausible slip: the result of a data pass ignored (`let _ = ...`), the
\* call going on to the next sub-step.
FailIgnored ==
    /\ pc' = IF pc \in {"v6_open", "v7_scan", "v7_commit"} THEN "v7_done"
             ELSE IF pc \in {"v8_open", "v8_scan", "v8_commit"} THEN "v8_done"
             ELSE "error"
    /\ failed' = pc
    /\ txn' = NoTxn
    /\ cursor' = 0
    /\ UNCHANGED <<codec, persisted, old_version, handles, history, log, lastCrash>>

\* The `?` operator: the call returns the error at once.  Nothing is
\* committed, the transaction in progress is aborted, and a handle that is
\* open is not closed by the call.
Fail ==
    /\ pc' = "error"
    /\ failed' = pc
    /\ txn' = NoTxn
    /\ cursor' = 0
    /\ UNCHANGED <<codec, persisted, old_version, handles, history, log, lastCrash>>

\* A plausible slip: the fix-up of line 64 left out.
AfterProbeNoFix(v) == IF v < 7 THEN "to_v6" ELSE IF v < 8 THEN "to_v8" ELSE "final"

\* A plausible slip: `old_version < 6` on line 50.
AfterProbeBelow6(v) == IF v < 6 THEN "to_v6" ELSE IF v < 8 THEN "to_fix" ELSE "final"

\* A plausible slip: `old_version != 8` on line 63.
AfterProbeFixUnless8(v) == IF v < 7 THEN "to_v6" ELSE IF v # 8 THEN "to_fix" ELSE "final"

\* A plausible slip: `old_version <= 8` on line 63.
AfterProbeFixAt8(v) == IF v < 7 THEN "to_v6" ELSE IF v <= 8 THEN "to_fix" ELSE "final"

\* Where the call goes once old_version is known (lines 50 and 63).
AfterProbe(v) == IF v < 7 THEN "to_v6" ELSE IF v < 8 THEN "to_fix" ELSE "final"

\* Line 44: IdbDatabase::open(name) with no version creates an absent
\* database at version 1 with an empty catalog.
OpenDefault ==
    /\ pc = "idle"
    /\ pc' = "opened"
    /\ handles' = handles + 1
    /\ version' = IF version = 0 THEN 1 ELSE version
    /\ UNCHANGED <<codec, stores, igs1, igs2, old_version, txn, cursor, history, log,
                   failed, lastCrash>>

\* Lines 45-46: read the version, close the handle.
ReadVersion ==
    /\ pc = "opened"
    /\ old_version' = version
    /\ handles' = handles - 1
    /\ pc' = AfterProbe(version)
    /\ UNCHANGED <<codec, persisted, txn, cursor, history, log, failed, lastCrash>>

\* The store as an upgrade-needed callback finds it.
Catalog == [stores |-> stores, igs1 |-> igs1, igs2 |-> igs2, err |-> FALSE]

\* A plausible fault: the version is raised as soon as the upgrade starts.
OpenAtEagerVersion(target, s, upgrading, opened) ==
    /\ version' = target
    /\ txn' = [active |-> TRUE, stores |-> s.stores, igs1 |-> s.igs1, igs2 |-> s.igs2]
    /\ pc' = IF version = target THEN opened ELSE upgrading
    /\ handles' = handles + 1
    /\ UNCHANGED <<codec, stores, igs1, igs2, old_version, cursor, history, log, failed,
                   lastCrash>>

\* IdbDatabase::open_u32(name, target) up to the end of the upgrade-needed
\* callback, s being what the callback makes of the store: a VersionError
\* when the database is newer, a plain open when it is at target, otherwise
\* a versionchange transaction holding s.
OpenAt(target, s, upgrading, opened) ==
    IF version > target THEN Fail
    ELSE IF version = target
      THEN /\ pc' = opened
           /\ handles' = handles + 1
           /\ UNCHANGED <<codec, persisted, old_version, txn, cursor, history, log,
                          failed, lastCrash>>
      ELSE IF s.err THEN Fail
      ELSE /\ txn' = [active |-> TRUE, stores |-> s.stores,
                      igs1 |-> s.igs1, igs2 |-> s.igs2]
           /\ pc' = upgrading
           /\ handles' = handles + 1
           /\ UNCHANGED <<codec, persisted, old_version, cursor, history, log,
                          failed, lastCrash>>

\* A plausible fault: one upgrade transaction per schema step, each
\* persisting the next version number on its own.
CommitUpgradeOneStep(target) ==
    /\ version' = IF version + 1 < target THEN version + 1 ELSE target
    /\ stores' = txn.stores
    /\ igs1' = txn.igs1
    /\ igs2' = txn.igs2
    /\ txn' = NoTxn

\* The versionchange transaction commits: catalog, records and the new
\* version number become persistent together.
CommitUpgrade(target) ==
    /\ version' = target
    /\ stores' = txn.stores
    /\ igs1' = txn.igs1
    /\ igs2' = txn.igs2
    /\ txn' = NoTxn

\* Line 52, migrate_schema_up_to_v6.
SchemaV6Open ==
    /\ pc = "to_v6"
    /\ OpenAt(6, upgrade_to_v6(version, Catalog), "v6_upgrading", "v6_open")

SchemaV6Commit ==
    /\ pc = "v6_upgrading"
    /\ CommitUpgrade(6)
    /\ pc' = "v6_open"
    /\ seen6' = txn.igs1
    /\ log' = Append(log, "schema6")
    /\ UNCHANGED <<codec, old_version, handles, cursor, store0, failed, lastCrash>>

\* A plausible change: the new store cleared before the copy.
DataV7BeginClearNew ==
    /\ pc = "v6_open"
    /\ IF {INBOUND_GROUP_SESSIONS_V1, INBOUND_GROUP_SESSIONS_V2} \subseteq stores
         THEN /\ txn' = [SnapTxn EXCEPT !.igs2 = EmptyTable]
              /\ cursor' = NextKey(igs1, 0)
              /\ pc' = IF NextKey(igs1, 0) = 0 THEN "v7_commit" ELSE "v7_scan"
              /\ UNCHANGED <<codec, persisted, old_version, handles, history, log,
                             failed, lastCrash>>
         ELSE Fail

\* Lines 259-270 of prepare_data_for_v7: the transaction on both stores and
\* the cursor on the legacy one.
DataV7Begin ==
    /\ pc = "v6_open"
    /\ IF {INBOUND_GROUP_SESSIONS_V1, INBOUND_GROUP_SESSIONS_V2} \subseteq stores
         THEN /\ txn' = SnapTxn
              /\ cursor' = NextKey(igs1, 0)
              /\ pc' = IF NextKey(igs1, 0) = 0 THEN "v7_commit" ELSE "v7_scan"
              /\ UNCHANGED <<codec, persisted, old_version, handles, history, log,
                             failed, lastCrash>>
         ELSE Fail

\* A plausible fault: every record moved in a transaction of its own, so
\* that each turn of the loop is persisted at once.
DataV7RecordAutoCommit ==
    /\ pc = "v7_scan"
    /\ LET t == v7_record([igs1 |-> txn.igs1, igs2 |-> txn.igs2,
                           cursor |-> cursor, err |-> FALSE])
       IN  IF t.err THEN Fail
           ELSE /\ txn' = [txn EXCEPT !.igs1 = t.igs1, !.igs2 = t.igs2]
                /\ igs1' = t.igs1
                /\ igs2' = t.igs2
                /\ cursor' = t.cursor
                /\ pc' = IF t.cursor = 0 THEN "v7_commit" ELSE "v7_scan"
                /\ UNCHANGED <<codec, version, stores, old_version, handles, history,
                               log, failed, lastCrash>>

\* Lines 272-299.
DataV7Record ==
    /\ pc = "v7_scan"
    /\ LET t == v7_record([igs1 |-> txn.igs1, igs2 |-> txn.igs2,
                           cursor |-> cursor, err |-> FALSE])
       IN  IF t.err THEN Fail
           ELSE /\ txn' = [txn EXCEPT !.igs1 = t.igs1, !.igs2 = t.igs2]
                /\ cursor' = t.cursor
                /\ pc' = IF t.cursor = 0 THEN "v7_commit" ELSE "v7_scan"
                /\ UNCHANGED <<codec, persisted, old_version, handles, history, log,
                               failed, lastCrash>>

\* A plausible fault: the batch covers the new store only, so the deletions
\* from the legacy store are not persisted with it.
DataV7CommitNewOnly ==
    /\ pc = "v7_commit"
    /\ igs2' = txn.igs2
    /\ txn' = NoTxn
    /\ pc' = "v7_done"
    /\ log' = Append(log, "data7")
    /\ UNCHANGED <<codec, version, stores, igs1, old_version, handles, cursor, history,
                   failed, lastCrash>>

\* Line 303: the batch commits.
DataV7Commit ==
    /\ pc = "v7_commit"
    /\ igs1' = txn.igs1
    /\ igs2' = txn.igs2
    /\ txn' = NoTxn
    /\ pc' = "v7_done"
    /\ log' = Append(log, "data7")
    /\ UNCHANGED <<codec, version, stores, old_version, handles, cursor, history,
                   failed, lastCrash>>

\* A plausible slip: the fix-up called before migrate_schema_for_v7.
DataV7CloseThenFix ==
    /\ pc = "v7_done"
    /\ handles' = handles - 1
    /\ pc' = "to_fix"
    /\ UNCHANGED <<codec, persisted, old_version, txn, cursor, history, log, failed,
                   lastCrash>>

\* A plausible slip: db.close() of line 54 left out.
DataV7CloseMissing ==
    /\ pc = "v7_done"
    /\ pc' = "to_v7"
    /\ UNCHANGED <<codec, persisted, old_version, handles, txn, cursor, history, log,
                   failed, lastCrash>>

\* Line 54.
DataV7Close ==
    /\ pc = "v7_done"
    /\ handles' = handles - 1
    /\ pc' = "to_v7"
    /\ UNCHANGED <<codec, persisted, old_version, txn, cursor, history, log, failed,
                   lastCrash>>

\* Line 58, migrate_schema_for_v7; the handle is closed as soon as the open
\* completes (line 142).
SchemaV7Open ==
    /\ pc = "to_v7"
    /\ OpenAt(7, upgrade_to_v7(version, Catalog), "v7_upgrading", "v7_opened")

SchemaV7Commit ==
    /\ pc = "v7_upgrading"
    /\ CommitUpgrade(7)
    /\ pc' = "v7_opened"
    /\ log' = Append(log, "schema7")
    /\ UNCHANGED <<codec, old_version, handles, cursor, history, failed, lastCrash>>

SchemaV7Close ==
    /\ pc = "v7_opened"
    /\ handles' = handles - 1
    /\ pc' = IF old_version < 8 THEN "to_fix" ELSE "final"
    /\ UNCHANGED <<codec, persisted, old_version, txn, cursor, history, log, failed,
                   lastCrash>>

\* Line 318 of prepare_data_for_v8.
FixOpen ==
    /\ pc = "to_fix"
    /\ handles' = handles + 1
    /\ pc' = "v8_open"
    /\ UNCHANGED <<codec, persisted, old_version, txn, cursor, history, log, failed,
                   lastCrash>>

\* Lines 319-330.
FixBegin ==
    /\ pc = "v8_open"
    /\ IF INBOUND_GROUP_SESSIONS_V2 \in stores
         THEN /\ txn' = SnapTxn
              /\ cursor' = NextKey(igs2, 0)
              /\ pc' = IF NextKey(igs2, 0) = 0 THEN "v8_commit" ELSE "v8_scan"
              /\ UNCHANGED <<codec, persisted, old_version, handles, history, log,
                             failed, lastCrash>>
         ELSE Fail

\* Lines 334-387.
FixRecord ==
    /\ pc = "v8_scan"
    /\ LET t == v8_record(codec, [igs1 |-> txn.igs1, igs2 |-> txn.igs2,
                                  cursor |-> cursor, err |-> FALSE])
       IN  IF t.err THEN Fail
           ELSE /\ txn' = [txn EXCEPT !.igs2 = t.igs2]
                /\ cursor' = t.cursor
                /\ pc' = IF t.cursor = 0 THEN "v8_commit" ELSE "v8_scan"
                /\ UNCHANGED <<codec, persisted, old_version, handles, history, log,
                               failed, lastCrash>>

\* Line 390.
FixCommit ==
    /\ pc = "v8_commit"
    /\ igs2' = txn.igs2
    /\ txn' = NoTxn
    /\ pc' = "v8_done"
    /\ log' = Append(log, "data8")
    /\ UNCHANGED <<codec, version, stores, igs1, old_version, handles, cursor, history,
                   failed, lastCrash>>

\* Line 391.
FixClose ==
    /\ pc = "v8_done"
    /\ handles' = handles - 1
    /\ pc' = "to_v8"
    /\ UNCHANGED <<codec, persisted, old_version, txn, cursor, history, log, failed,
                   lastCrash>>

\* Line 65, migrate_schema_for_v8.
SchemaV8Open ==
    /\ pc = "to_v8"
    /\ OpenAt(8, upgrade_to_v8(version, Catalog), "v8_upgrading", "v8_opened")

SchemaV8Commit ==
    /\ pc = "v8_upgrading"
    /\ CommitUpgrade(8)
    /\ pc' = "v8_opened"
    /\ log' = Append(log, "schema8")
    /\ UNCHANGED <<codec, old_version, handles, cursor, history, failed, lastCrash>>

SchemaV8Close ==
    /\ pc = "v8_opened"
    /\ handles' = handles - 1
    /\ pc' = "final"
    /\ UNCHANGED <<codec, persisted, old_version, txn, cursor, history, log, failed,
                   lastCrash>>

\* A plausible slip: the final open without a version, as on line 44.
FinalOpenNoVersion ==
    /\ pc = "final"
    /\ pc' = "done"
    /\ handles' = handles + 1
    /\ UNCHANGED <<codec, persisted, old_version, txn, cursor, history, log, failed,
                   lastCrash>>

\* Line 70: the handle that is returned.  No callback is installed, so an
\* open below version 8 would only raise the version.
FinalOpen ==
    /\ pc = "final"
    /\ IF version > 8 THEN Fail
       ELSE /\ version' = 8
            /\ pc' = "done"
            /\ handles' = handles + 1
            /\ log' = IF version < 8 THEN Append(log, "schema8") ELSE log
            /\ UNCHANGED <<codec, stores, igs1, igs2, old_version, txn, cursor, history,
                           failed, lastCrash>>

\* The caller is done with the result (the returned handle, or the error)
\* and may call again later.
Return ==
    /\ pc \in {"done", "error"}
    /\ pc' = "idle"
    /\ handles' = 0
    /\ old_version' = 0
    /\ log' = <<>>
    /\ failed' = "none"
    /\ UNCHANGED <<codec, persisted, txn, cursor, history, lastCrash>>

\* ---- the environment -----------------------------------------------------
Running == pc \notin {"idle", "done", "error"}

\* What the call had reached when the process was terminated.
CrashPoint(p) ==
    CASE p \in {"opened", "to_v6", "v6_upgrading"}       -> "before_v6"
      [] p = "v6_open"                                   -> "after_v6"
      [] p \in {"v7_scan", "v7_commit"}                  -> "in_batch7"
      [] p \in {"v7_done", "to_v7", "v7_upgrading"}      -> "after_data7"
      [] p \in {"v7_opened", "to_fix", "v8_open"}        -> "after_v7"
      [] p \in {"v8_scan", "v8_commit"}                  -> "in_batch8"
      [] p \in {"v8_done", "to_v8", "v8_upgrading"}      -> "after_data8"
      [] OTHER                                           -> "after_v8"

\* The process is terminated (crash, tab close): everything that is not
\* committed is lost, every handle is gone.
Crash ==
    /\ Running
    /\ pc' = "idle"
    /\ txn' = NoTxn
    /\ cursor' = 0
    /\ handles' = 0
    /\ lastCrash' = CrashPoint(pc)
    /\ old_version' = 0
    /\ log' = <<>>
    /\ failed' = "none"
    /\ UNCHANGED <<codec, persisted, history>>

\* The engine fails the operation the call is waiting for.
EngineFault ==
    /\ Running
    /\ Fail

Next ==
    \/ OpenDefault \/ ReadVersion
    \/ SchemaV6Open \/ SchemaV6Commit
    \/ DataV7Begin \/ DataV7Record \/ DataV7Commit \/ DataV7Close
    \/ SchemaV7Open \/ SchemaV7Commit \/ SchemaV7Close
    \/ FixOpen \/ FixBegin \/ FixRecord \/ FixCommit \/ FixClose
    \/ SchemaV8Open \/ SchemaV8Commit \/ SchemaV8Close
    \/ FinalOpen
    \/ Return \/ Crash \/ EngineFault

Spec == Init /\ [][Next]_vars

\* The specification in which the codec keeps its contract: distinct
\* (table, session) pairs never share a physical key unless the codec ignores
\* the table name.
InitKeyUnique == InitStore(UniqueCodecs)

SpecKeyUnique == InitKeyUnique /\ [][Next]_vars

\* The specification of recovery: every record decodable, the store not
\* newer than version 8, no engine fault; the process may be terminated at
\* any time, and a call that can take a step eventually takes it (the
\* caller calls again after every termination and every return).
InitLive ==
    /\ InitStore(UniqueCodecs \cup ResidualCodecs)
    /\ version <= 8
    /\ \A k \in Keys : igs1[k] # Corrupt /\ igs2[k] # Corrupt

CallStep ==
    \/ OpenDefault \/ ReadVersion
    \/ SchemaV6Open \/ SchemaV6Commit
    \/ DataV7Begin \/ DataV7Record \/ DataV7Commit \/ DataV7Close
    \/ SchemaV7Open \/ SchemaV7Commit \/ SchemaV7Close
    \/ FixOpen \/ FixBegin \/ FixRecord \/ FixCommit \/ FixClose
    \/ SchemaV8Open \/ SchemaV8Commit \/ SchemaV8Close
    \/ FinalOpen
    \/ Return

NextLive == CallStep \/ Crash

SpecLive == InitLive /\ [][NextLive]_vars /\ WF_vars(CallStep)

\* The specification of schema step 5: stores below version 5 with any of
\* the three superseded secret-request stores present or absent.
InitSuperseded ==
    /\ codec \in UniqueCodecs \cup ResidualCodecs
    /\ version \in 1..4
    /\ \E old \in SUBSET SupersededStores : stores = CatalogAt(version) \cup old
    /\ \E g \in [LogicalKeys -> Slots] : igs1 = LegacyTable(codec, g)
    /\ igs2 = EmptyTable
    /\ pc = "idle"
    /\ old_version = 0
    /\ handles = 0
    /\ txn = NoTxn
    /\ cursor = 0
    /\ store0 = [version |-> version, stores |-> stores, igs1 |-> igs1, igs2 |-> igs2]
    /\ seen6 = EmptyTable
    /\ log = <<>>
    /\ failed = "none"
    /\ lastCrash = "none"

SpecSuperseded == InitSuperseded /\ [][Next]_vars

\* ---- reading a session back ----------------------------------------------
\* IndexeddbCryptoStore::get_inbound_group_session as the tests use it: look
\* the canonical key up in the new store and unpickle what is found.
get_inbound_group_session(c, table, lk) ==
    LET value == table[encode_key(c, INBOUND_GROUP_SESSIONS_V2, lk)]
    IN  IF value = None \/ value = Corrupt THEN value ELSE value.pickled_session

\* ---- one uninterrupted call, as a function of the store -------------------
RECURSIVE run_v7(_)
\* prepare_data_for_v7's loop run to its end.
run_v7(t) == IF t.err \/ t.cursor = 0 THEN t ELSE run_v7(v7_record(t))

RECURSIVE run_v8(_, _)
\* prepare_data_for_v8's loop run to its end.
run_v8(c, t) == IF t.err \/ t.cursor = 0 THEN t ELSE run_v8(c, v8_record(c, t))

\* Lines 50-59 on a store st = [version, stores, igs1, igs2, err].
run_to_v7(st) ==
    LET a == IF st.version < 6
               THEN [upgrade_to_v6(st.version, st) EXCEPT !.version = 6]
               ELSE st
        b == IF a.err \/ ~({INBOUND_GROUP_SESSIONS_V1, INBOUND_GROUP_SESSIONS_V2}
                              \subseteq a.stores)
               THEN [a EXCEPT !.err = TRUE]
               ELSE LET t == run_v7([igs1 |-> a.igs1, igs2 |-> a.igs2,
                                     cursor |-> NextKey(a.igs1, 0), err |-> FALSE])
                    IN  [a EXCEPT !.igs1 = t.igs1, !.igs2 = t.igs2, !.err = t.err]
    IN  IF b.err THEN [st EXCEPT !.err = TRUE]
        ELSE IF b.version < 7
          THEN [upgrade_to_v7(b.version, b) EXCEPT !.version = 7]
          ELSE b

\* Lines 63-66.
run_to_v8(c, st) ==
    IF st.err \/ INBOUND_GROUP_SESSIONS_V2 \notin st.stores
      THEN [st EXCEPT !.err = TRUE]
      ELSE LET t == run_v8(c, [igs1 |-> st.igs1, igs2 |-> st.igs2,
                               cursor |-> NextKey(st.igs2, 0), err |-> FALSE])
           IN  IF t.err THEN [st EXCEPT !.err = TRUE]
               ELSE [st EXCEPT !.igs2 = t.igs2,
                               !.version = IF @ < 8 THEN 8 ELSE @]

\* open_and_upgrade_db run from start to end without interruption.
open_and_upgrade_db(c, st0) ==
    LET st == [version |-> IF st0.version = 0 THEN 1 ELSE st0.version,
               stores |-> st0.stores, igs1 |-> st0.igs1, igs2 |-> st0.igs2,
               err |-> FALSE]
        oldv == st.version
        a == IF AfterProbe(oldv) = "to_v6" THEN run_to_v7(st) ELSE st
        b == IF a.err THEN a
             ELSE IF AfterProbe(oldv) \in {"to_v6", "to_fix"} THEN run_to_v8(c, a) ELSE a
    IN  IF b.err \/ b.version > 8 THEN [b EXCEPT !.err = TRUE] ELSE b

Stored == [version |-> version, stores |-> stores, igs1 |-> igs1, igs2 |-> igs2]

LegacyKey(lk) == encode_key(codec, INBOUND_GROUP_SESSIONS_V1, lk)

CanonicalKey(lk) == encode_key(codec, INBOUND_GROUP_SESSIONS_V2, lk)

IsRecord(v) == v # None /\ v # Corrupt

\* ---- claims ---------------------------------------------------------------

\* C1: whenever open_and_upgrade_db returns success, whatever the store was
\* at the start (absent, or at any version), the persisted version is
\* exactly 8 and the returned handle is open.
C1_SuccessMeansVersion8 ==
    pc = "done" => version = 8 /\ handles = 1

\* C1 witness: a successful return on a store that did not exist before.
C1_Witness == pc = "done" /\ store0.version = 0 /\ version = 8

\* C2: a call that completes after terminations at any point leaves the
\* store in the state one uninterrupted call from the same initial store
\* leaves it in: version 8, the same catalog, the same records under the
\* same keys.
C2_CrashSafety ==
    pc = "done" =>
        LET r == open_and_upgrade_db(codec, store0)
        IN  /\ ~r.err
            /\ Stored = [version |-> r.version, stores |-> r.stores,
                         igs1 |-> r.igs1, igs2 |-> r.igs2]

\* C2 witness: a successful return after a termination in the middle of the
\* data migration batch of a store that had records to migrate.
C2_Witness ==
    /\ pc = "done"
    /\ lastCrash = "in_batch7"
    /\ Count(store0.igs1) = NumSessions
    /\ Count(igs2) = NumSessions

\* C3: every record that was in the legacy store under its legacy key when
\* version 6 was committed is, once the call has returned at version 8,
\* what a lookup of its (room_id, session_id) in the new store returns.
C3_KeyConvergence ==
    pc = "done" =>
        \A lk \in LogicalKeys :
            (IsRecord(seen6[LegacyKey(lk)]) /\ seen6[LegacyKey(lk)].lk = lk)
                => get_inbound_group_session(codec, igs2, lk) = seen6[LegacyKey(lk)]

\* C3 witness: a completed upgrade, under a store cipher, of a store whose
\* legacy table held every session.
C3_Witness ==
    /\ pc = "done"
    /\ codec # "none"
    /\ \A lk \in LogicalKeys : IsRecord(seen6[LegacyKey(lk)])
    /\ \A lk \in LogicalKeys : IsRecord(igs2[CanonicalKey(lk)])

\* The canonical key of a decodable record of the new store.
Canon(obj) == new_key_for(codec, obj.pickled_session)

\* No two sessions share a canonical key.
NoCanonicalCollision ==
    \A a, b \in LogicalKeys : a # b => CanonicalKey(a) # CanonicalKey(b)

\* Nor is the canonical key of one session the legacy key of another.
NoCrossCollision ==
    \A a, b \in LogicalKeys : a # b => CanonicalKey(a) # LegacyKey(b)

C5_V5Scenario ==
    (pc = "done" /\ store0.version = 5) =>
        /\ INBOUND_GROUP_SESSIONS_V1 \notin stores
        /\ \A lk \in LogicalKeys :
              LET seeded == store0.igs1[LegacyKey(lk)]
                  found  == get_inbound_group_session(codec, igs2, lk)
              IN  (IsRecord(seeded) /\ seeded.lk = lk) =>
                      /\ IsRecord(found)
                      /\ found.lk = lk
                      /\ found.backed_up = seeded.backed_up
                      /\ igs2[CanonicalKey(lk)].needs_backup = ~seeded.backed_up

\* C5 witness: the test's store, one session backed up and one not, upgraded
\* under a store cipher.
C5_Witness ==
    /\ pc = "done"
    /\ store0.version = 5
    /\ codec = "hashA"
    /\ store0.igs1[LegacyKey(1)] = Pickle(1, TRUE)
    /\ store0.igs1[LegacyKey(2)] = Pickle(2, FALSE)
    /\ get_inbound_group_session(codec, igs2, 1) = Pickle(1, TRUE)
    /\ get_inbound_group_session(codec, igs2, 2) = Pickle(2, FALSE)

\* The keys whose records map to canonical key c in table t.
Group(t, c) == {k \in Keys : IsRecord(t[k]) /\ Canon(t[k]) = c}

MinKey(S) == CHOOSE k \in S : \A x \in S : k <= x

\* C6, as claimed: when the fix-up pass has run over a table in which two
\* records map to the same canonical key, that key holds what it held before
\* the pass (one of the two), and no other record mapping to it is left.
C6_AsClaimed ==
    pc = "v8_commit" =>
        \A c \in Keys :
            Cardinality(Group(igs2, c)) >= 2 =>
                /\ c \in Group(igs2, c)
                /\ txn.igs2[c] = igs2[c]
                /\ Group(txn.igs2, c) = {c}

\* C6, amended: of the records mapping to one canonical key that is free or
\* held by one of them, exactly one is left by the pass, under that key: the
\* one that held the key before the pass if there is one, else the one the
\* cursor reaches first.
C6_ExistingOrFirstWins ==
    pc = "v8_commit" =>
        \A c \in Keys :
            (Cardinality(Group(igs2, c)) >= 2 /\ (igs2[c] = None \/ c \in Group(igs2, c))) =>
                /\ txn.igs2[c] = igs2[IF c \in Group(igs2, c) THEN c ELSE MinKey(Group(igs2, c))]
                /\ Group(txn.igs2, c) = {c}

\* C6 witness: two stale records of different sessions with one canonical
\* key, which is free; the pass has run.
C6_Witness ==
    /\ pc = "v8_commit"
    /\ \E c \in Keys :
          /\ Cardinality(Group(igs2, c)) >= 2
          /\ igs2[c] = None
          /\ IsRecord(txn.igs2[c])

\* C7: once the orchestrator has brought a store to version 8, every record
\* of the new store is decodable and stored under its canonical key.
C7_CanonicalAtV8 ==
    (version = 8 /\ store0.version < 8) =>
        \A k \in Keys : igs2[k] # None => (IsRecord(igs2[k]) /\ Canon(igs2[k]) = k)

\* C7 witness: a version-7 store with a record under a wrong key, now at
\* version 8 with the record under its canonical key only.
C7_Witness ==
    /\ version = 8
    /\ store0.version = 7
    /\ \E lk \in LogicalKeys :
          /\ LegacyKey(lk) # CanonicalKey(lk)
          /\ IsRecord(store0.igs2[LegacyKey(lk)])
          /\ store0.igs2[CanonicalKey(lk)] = None
          /\ igs2[CanonicalKey(lk)] = store0.igs2[LegacyKey(lk)]
          /\ igs2[LegacyKey(lk)] = None

Committed(phase) == \E i \in DOMAIN log : log[i] = phase

\* C8: the version becomes 7 only in a call that has committed a data
\* migration batch before, and 8 only in a call that has committed a fix-up
\* batch before.
C8_CommitOrder ==
    [][/\ (version' = 7 /\ version # 7) => Committed("data7")
       /\ (version' = 8 /\ version # 8) => Committed("data8")]_vars

\* C8 witness: a call restarted after a termination has committed all five
\* phases in order.
C8_Witness ==
    /\ log = <<"data7", "schema7", "data8", "schema8">>
    /\ lastCrash = "after_v6"

Upgrading == pc \in {"v6_upgrading", "v7_upgrading", "v8_upgrading"}

\* C9: the persisted version never decreases; it does not move when an
\* upgrade transaction starts, and an upgrade transaction that ends in a
\* termination or an error leaves version, catalog and records as they were.
C9_VersionMonotone ==
    [][/\ version' >= version
       /\ pc' \in {"v6_upgrading", "v7_upgrading", "v8_upgrading"} => version' = version
       /\ (Upgrading /\ pc' \in {"idle", "error"}) => UNCHANGED persisted]_vars

\* C9 witness: a termination inside the upgrade to version 6 of a version-3
\* store, which is still at version 3.
C9_Witness ==
    /\ lastCrash = "before_v6"
    /\ pc = "idle"
    /\ store0.version = 3
    /\ version = 3

DataV7Steps == {"v6_open", "v7_scan", "v7_commit"}

FixSteps == {"v8_open", "v8_scan", "v8_commit"}

\* C10: from the failure of a sub-step until the call returns, the call is
\* returning the error: no later sub-step runs, nothing is left in progress,
\* and the version has not reached 7 if the data migration failed, nor 8 if
\* the fix-up failed.
C10_ErrorStops ==
    failed # "none" =>
        /\ pc = "error"
        /\ txn = NoTxn
        /\ failed \in DataV7Steps => version < 7
        /\ failed \in FixSteps => version < 8

\* C10 witness: the data migration has hit an undecodable record.
C10_Witness ==
    /\ pc = "error"
    /\ failed = "v7_scan"
    /\ \E k \in Keys : igs1[k] = Corrupt
    /\ version = 6

\* The pass is on a record that deserialize_value / from_pickle rejects.
DecodeFails ==
    \/ pc = "v7_scan" /\ txn.igs1[cursor] = Corrupt
    \/ pc = "v8_scan" /\ txn.igs2[cursor] = Corrupt

C12_SecondRunNoOp ==
    [][/\ version = 8 => UNCHANGED persisted
       /\ old_version' = 8 =>
             /\ pc' \in {"final", "done", "error"}
             /\ log' = <<>>
             /\ txn' = NoTxn
       /\ (old_version' = 8 /\ pc' = "done" /\ store0.version <= 8) =>
             LET r == open_and_upgrade_db(codec, store0)
             IN  /\ ~r.err
                 /\ Stored' = [version |-> r.version, stores |-> r.stores,
                                igs1 |-> r.igs1, igs2 |-> r.igs2]
                 /\ open_and_upgrade_db(codec, Stored') = r]_vars

\* C12 witness: a store found at version 5 with every session in the legacy
\* table has been migrated by one call, and a second call, which found it at
\* version 8, has returned it with nothing committed.
C12_Witness ==
    /\ pc = "done"
    /\ old_version = 8
    /\ log = <<>>
    /\ store0.version = 5
    /\ Count(store0.igs1) = NumSessions
    /\ Count(igs2) = NumSessions
    /\ lastCrash = "none"

\* C13: whenever the schema step to version 7 is about to delete, or has
\* deleted within its upgrade transaction, the legacy store, the persisted
\* legacy store holds no record; this in every run, runs restarted after a
\* termination included.
C13_DropsEmptyLegacy ==
    /\ (pc = "to_v7" /\ version < 7) =>
          (INBOUND_GROUP_SESSIONS_V1 \in stores /\ igs1 = EmptyTable)
    /\ pc = "v7_upgrading" =>
          /\ INBOUND_GROUP_SESSIONS_V1 \in stores
          /\ INBOUND_GROUP_SESSIONS_V1 \notin txn.stores
          /\ igs1 = EmptyTable

\* C13 witness: in a call restarted after a termination inside the data
\* migration batch, the upgrade to version 7 has deleted the legacy store,
\* which held every session when version 6 was committed.
C13_Witness ==
    /\ pc = "v7_upgrading"
    /\ lastCrash = "in_batch7"
    /\ Count(seen6) = NumSessions
    /\ INBOUND_GROUP_SESSIONS_V1 \notin txn.stores
    /\ Count(igs2) = NumSessions

\* C14: in every persisted state at version 6, terminations at any point
\* included, either the legacy store holds exactly the records it held when
\* version 6 was committed and the new store holds none, or the legacy store
\* is empty and each of those records is in the new store; never a record
\* in both stores or in neither.
C14_BatchAllOrNothing ==
    version = 6 =>
        \/ /\ igs1 = seen6
           /\ igs2 = EmptyTable
        \/ /\ igs1 = EmptyTable
           /\ \A k \in Keys : seen6[k] # None => igs2[k] = IdbObject(seen6[k])
           /\ Count(igs2) = Count(seen6)

\* C14 witness: half-way through the batch (one record moved, one not, in
\* the transaction) the persisted stores are still as at the commit of
\* version 6.
C14_Witness ==
    /\ version = 6
    /\ pc = "v7_scan"
    /\ Count(txn.igs1) = NumSessions - 1
    /\ Count(txn.igs2) = 1
    /\ Count(igs1) = NumSessions
    /\ igs1 = seen6
    /\ igs2 = EmptyTable

\* The call is about to open the database (lines 44, 52, 58, 318, 65, 70).
AboutToOpen == pc \in {"idle", "to_v6", "to_v7", "to_fix", "to_v8", "final"}

\* C15: at every point of a call, after an error as well, at most one
\* handle opened by the call is open, and whenever the call is about to
\* open the database (the opens raising the version to 6, 7 and 8 among
\* them) every handle it opened before is closed.
C15_OneHandle ==
    /\ handles \in {0, 1}
    /\ AboutToOpen => handles = 0

\* C15 witness: the open raising the version to 8 holds the only open
\* handle of a call that has gone through the upgrade to 6, both data passes
\* and the upgrade to 7, each on a handle of its own.
C15_Witness ==
    /\ pc = "v8_upgrading"
    /\ handles = 1
    /\ log = <<"schema6", "data7", "schema7", "data8">>

\* prepare_data_for_v8 run over the new store as table.
fixup(c, table) ==
    run_v8(c, [igs1 |-> EmptyTable, igs2 |-> table,
               cursor |-> NextKey(table, 0), err |-> FALSE])

\* Every table of decodable records, under the right keys or not.
AnyTable == [Keys -> {None} \cup {IdbObject(p) : p \in Pickles}]

\* C16: when the fix-up pass has run over the new store, whatever the store
\* held, a second run over the result does not fail and changes no entry,
\* every record being under its canonical key already; and a call that runs
\* the pass again after a termination that followed the commit of the first
\* run changes nothing in its batch.  The first conjunct is the same for
\* tables no call produces; it depends on the codec only and is evaluated
\* on the states of an absent store.
C16_FixupIdempotent ==
    /\ version = 0 =>
          \A T \in AnyTable :
              LET once == fixup(codec, T)
              IN  ~once.err /\ fixup(codec, once.igs2) = once
    /\ pc = "v8_commit" =>
          /\ ~fixup(codec, txn.igs2).err
          /\ fixup(codec, txn.igs2).igs2 = txn.igs2
          /\ \A k \in Keys : txn.igs2[k] # None => Canon(txn.igs2[k]) = k
    /\ (lastCrash = "after_data8" /\ version = 7 /\ pc \in {"v8_scan", "v8_commit"}) =>
          txn.igs2 = igs2

\* C16 witness: the second run of the pass, in a call restarted after a
\* termination between the commit of the first run and version 8, has come
\* to its end over a store the first run had changed.
C16_Witness ==
    /\ pc = "v8_commit"
    /\ lastCrash = "after_data8"
    /\ version = 7
    /\ store0.version = 7
    /\ store0.igs2 # igs2
    /\ Count(igs2) = NumSessions
    /\ txn.igs2 = igs2

\* C17: when no engine or decode error occurs and the caller calls again
\* after every termination, either the process is terminated again and
\* again without end, or a call returns the store at version 8; this from
\* every initial version up to 8 and whatever the points of termination.
C17_RecoveryLiveness ==
    []<><<Crash>>_vars \/ <>(pc = "done" /\ version = 8 /\ handles = 1)

\* C17 witness: a call has returned at version 8 a store found at version 5
\* with records, after a termination that hit the fix-up batch.
C17_Witness ==
    /\ pc = "done"
    /\ version = 8
    /\ store0.version = 5
    /\ Count(store0.igs1) = NumSessions
    /\ lastCrash = "in_batch8"
    /\ failed = "none"

\* C18: in every persisted state, after terminations as well, a store at
\* version 6 has both the legacy and the new inbound-group-session store,
\* and a store at version 7 or 8 has the new one and not the legacy one.
C18_CatalogMatchesVersion ==
    /\ version = 6 =>
          {INBOUND_GROUP_SESSIONS_V1, INBOUND_GROUP_SESSIONS_V2} \subseteq stores
    /\ version \in {7, 8} =>
          /\ INBOUND_GROUP_SESSIONS_V2 \in stores
          /\ INBOUND_GROUP_SESSIONS_V1 \notin stores

\* C18 witness: a store found below version 6, left at version 7 by a
\* termination after the upgrade to 7, with the new store and without the
\* legacy one.
C18_Witness ==
    /\ pc = "idle"
    /\ lastCrash = "after_v7"
    /\ store0.version < 6
    /\ version = 7
    /\ INBOUND_GROUP_SESSIONS_V2 \in stores
    /\ INBOUND_GROUP_SESSIONS_V1 \notin stores

\* The object store that schema step n, and no other step, creates.
StepMarker(n) ==
    CASE n = 1 -> "core"
      [] n = 2 -> "room_settings"
      [] n = 3 -> "direct_withheld_info"
      [] n = 4 -> "secrets_inbox"
      [] n = 5 -> "gossip_requests"
      [] OTHER -> INBOUND_GROUP_SESSIONS_V2

\* Step n has made its change in the running upgrade transaction.
StepApplied(n) == StepMarker(n) \in txn.stores /\ StepMarker(n) \notin stores

\* C19, as claimed: when the callback of the upgrade to version 6 has run,
\* each step n of 1..6 has made its change if and only if the old version
\* of the upgrade event (the persisted version) is below n.
C19_AsClaimed ==
    pc = "v6_upgrading" => \A n \in 1..6 : StepApplied(n) <=> version < n

\* C19, amended: when the callback of the upgrade to version 6 has run, each
\* step n of 2..6 has made its change if and only if the old version of the
\* upgrade event is below n, step 2 emptying the legacy store and no other
\* step touching its records; step 1 has made its change if and only if the
\* catalog was empty, which is the case of a store just created by the
\* default open, whose old version is 1, not below 1.
C19_StepGuards ==
    pc = "v6_upgrading" =>
        /\ version \in 1..5
        /\ \A n \in 2..6 : StepApplied(n) <=> version < n
        /\ StepApplied(1) <=> stores = {}
        /\ txn.igs1 = IF version < 2 THEN EmptyTable ELSE igs1

\* C19 witness: the upgrade of a store the default open has just created
\* (old version 1, empty catalog) has applied all six steps.
C19_Witness ==
    /\ pc = "v6_upgrading"
    /\ store0.version = 0
    /\ version = 1
    /\ stores = {}
    /\ \A n \in 1..6 : StepApplied(n)

\* The catalog of a migrated store: the base stores of step 1 without the
\* legacy inbound-group-session store, and the stores of steps 2..6.
FinalCatalog ==
    (V1Stores \ {INBOUND_GROUP_SESSIONS_V1})
        \cup {"room_settings", "direct_withheld_info", "secrets_inbox",
              "gossip_requests", INBOUND_GROUP_SESSIONS_V2}

\* C20: whenever a call returns success, whatever the store was before the
\* first call (absent, or at a version up to 8 with that version's catalog,
\* the superseded secret-request stores included), the catalog is the same:
\* the base stores other than the legacy one, room_settings,
\* direct_withheld_info, secrets_inbox, gossip_requests and the new
\* inbound-group-session store.
C20_FinalCatalog ==
    pc = "done" => stores = FinalCatalog

\* C20 witness: a store that did not exist, created with an empty catalog
\* by the default open, has been returned with the full catalog.
C20_Witness ==
    /\ pc = "done"
    /\ store0.version = 0
    /\ store0.stores = {}
    /\ lastCrash = "none"
    /\ "core" \in stores
    /\ stores = FinalCatalog

\* C21: the version a call persists is 6, 7 or 8, or the 1 the default open
\* gives a store it creates with an empty catalog; the catalog changes only
\* together with the version, in the commit of the upgrade to 6 or to 7; and
\* an upgrade to 6 that is cut short leaves version, catalog and records as
\* they were.
C21_SingleUpgradeTransaction ==
    [][/\ version' # version =>
             \/ version' \in {6, 7, 8}
             \/ version = 0 /\ version' = 1 /\ stores = {} /\ stores' = {}
       /\ stores' # stores =>
             /\ version' \in {6, 7}
             /\ version' # version
             /\ stores' = txn.stores
       /\ (pc = "v6_upgrading" /\ pc' # "v6_open") => UNCHANGED persisted]_vars

\* C21 witness: a version-2 store, untouched by a termination before the
\* commit of the upgrade, has gone from version 2 to version 6 in one commit
\* of the restarted call.
C21_Witness ==
    /\ pc = "v6_open"
    /\ lastCrash = "before_v6"
    /\ log = <<"schema6">>
    /\ store0.version = 2
    /\ old_version = 2
    /\ version = 6
    /\ stores = CatalogAt(6)

\* The phase a position of the call belongs to: 1 schema to 6, 2 data
\* migration, 3 schema to 7, 4 fix-up, 5 schema to 8, 6 the final open and
\* the return; 0 outside the phases.
PhaseOf(p) ==
    CASE p \in {"to_v6", "v6_upgrading"}                         -> 1
      [] p \in {"v6_open", "v7_scan", "v7_commit", "v7_done"}     -> 2
      [] p \in {"to_v7", "v7_upgrading", "v7_opened"}             -> 3
      [] p \in {"to_fix", "v8_open", "v8_scan", "v8_commit", "v8_done"} -> 4
      [] p \in {"to_v8", "v8_upgrading", "v8_opened"}             -> 5
      [] p \in {"final", "done"}                                  -> 6
      [] OTHER                                                    -> 0

\* What phase n must have made persistent before the next phase starts.
PhaseCommitted(n) ==
    CASE n = 1 -> version = 6
      [] n = 2 -> Committed("data7") /\ igs1 = EmptyTable
      [] n = 3 -> version = 7
      [] n = 4 -> Committed("data8")
      [] OTHER -> version = 8

\* The commits of a call that found the store at version v.
ExpectedLog(v) ==
    IF v < 6 THEN <<"schema6", "data7", "schema7", "data8", "schema8">>
    ELSE IF v < 7 THEN <<"data7", "schema7", "data8", "schema8">>
    ELSE IF v < 8 THEN <<"data8", "schema8">>
    ELSE <<>>

\* C22: the version read at the start decides where a call enters the
\* sequence of phases (schema to 6 below version 7, fix-up at version 7,
\* none at version 8); from there the phases follow one another in the
\* order schema to 6, data migration, schema to 7, fix-up, schema to 8, each
\* entered once and only when the phase before it has committed; a call
\* that returns success has committed exactly the phases its start version
\* asks for, in that order.
C22_PhaseOrder ==
    [][/\ (pc = "opened" /\ PhaseOf(pc') # 0) =>
             PhaseOf(pc') = IF version < 7 THEN 1 ELSE IF version < 8 THEN 4 ELSE 6
       /\ \A n \in 1..6 :
             (PhaseOf(pc) = n /\ PhaseOf(pc') # 0 /\ PhaseOf(pc') # n) =>
                 /\ PhaseOf(pc') = n + 1
                 /\ PhaseCommitted(n)'
       /\ (PhaseOf(pc) = 0 /\ pc # "opened") => PhaseOf(pc') = 0
       /\ pc' = "done" => log' = ExpectedLog(old_version')]_vars

\* C22 witness: a call that found a version-5 store with records has run
\* the five phases in order and returned.
C22_Witness ==
    /\ pc = "done"
    /\ old_version = 5
    /\ log = ExpectedLog(5)
    /\ Count(igs2) = NumSessions
    /\ version = 8

\* The physical keys a table has entries under.
KeysOf(t) == {k \in Keys : t[k] # None}

\* C23: when the data migration batch commits over an empty new store, the
\* new store gets an entry under exactly the keys the legacy store had
\* entries under, each holding the object built from the legacy entry of
\* the same key, and the legacy store is left empty.
C23_KeysVerbatim ==
    [][(pc = "v7_commit" /\ pc' = "v7_done" /\ igs2 = EmptyTable) =>
          /\ KeysOf(igs2') = KeysOf(igs1)
          /\ \A k \in KeysOf(igs1) : igs2'[k] = IdbObject(igs1[k])
          /\ igs1' = EmptyTable]_vars

\* C23 witness: under a store cipher whose keys for the two stores differ,
\* the batch has committed every session under its legacy key.
C23_Witness ==
    /\ pc = "v7_done"
    /\ codec = "hashB"
    /\ igs1 = EmptyTable
    /\ Count(seen6) = NumSessions
    /\ \A lk \in LogicalKeys :
          /\ LegacyKey(lk) # CanonicalKey(lk)
          /\ igs2[LegacyKey(lk)] = IdbObject(seen6[LegacyKey(lk)])
          /\ igs2[CanonicalKey(lk)] = None

\* The loop of prepare_data_for_v7 run over the two stores.
data_migrator(legacy, new) ==
    run_v7([igs1 |-> legacy, igs2 |-> new, cursor |-> NextKey(legacy, 0), err |-> FALSE])

\* C24: a data migration that finds the legacy store empty does not fail,
\* visits no record, and commits both stores as they were.
C24_EmptyLegacyNoOp ==
    [][/\ (pc = "v6_open" /\ igs1 = EmptyTable) =>
             /\ ~data_migrator(igs1, igs2).err
             /\ data_migrator(igs1, igs2).igs1 = igs1
             /\ data_migrator(igs1, igs2).igs2 = igs2
             /\ pc' \in {"v6_open", "v7_commit", "idle", "error"}
       /\ (pc = "v7_commit" /\ pc' = "v7_done" /\ igs1 = EmptyTable) =>
             UNCHANGED persisted]_vars

\* C24 witness: the data migration run again, after a termination that
\* followed the commit of the first run, has committed over an empty legacy
\* store and a full new store.
C24_Witness ==
    /\ pc = "v7_done"
    /\ lastCrash = "after_data7"
    /\ log = <<"data7">>
    /\ version = 6
    /\ igs1 = EmptyTable
    /\ Count(igs2) = NumSessions

\* C25: throughout the fix-up pass and at its commit, every entry that was
\* a record under its own canonical key when the pass started is still
\* there with the same value, whatever records under wrong keys the pass
\* has processed.
C25_CanonicalUntouched ==
    pc \in {"v8_scan", "v8_commit"} =>
        \A lk \in LogicalKeys :
            (IsRecord(igs2[CanonicalKey(lk)])
                /\ igs2[CanonicalKey(lk)].pickled_session.lk = lk)
              => txn.igs2[CanonicalKey(lk)] = igs2[CanonicalKey(lk)]

\* C25 witness: a session with a record under its canonical key and a
\* different record under its legacy key; the pass has removed the second
\* and left the first as it was.
C25_Witness ==
    /\ pc = "v8_commit"
    /\ \E lk \in LogicalKeys :
          /\ LegacyKey(lk) # CanonicalKey(lk)
          /\ IsRecord(igs2[CanonicalKey(lk)])
          /\ igs2[CanonicalKey(lk)].pickled_session.lk = lk
          /\ IsRecord(igs2[LegacyKey(lk)])
          /\ igs2[LegacyKey(lk)].pickled_session.lk = lk
          /\ igs2[LegacyKey(lk)] # igs2[CanonicalKey(lk)]
          /\ txn.igs2[CanonicalKey(lk)] = igs2[CanonicalKey(lk)]
          /\ txn.igs2[LegacyKey(lk)] = None

\* The cursor of the fix-up pass is on a record under a key that is not its
\* canonical key.
OnStaleRecord ==
    /\ pc = "v8_scan"
    /\ IsRecord(txn.igs2[cursor])
    /\ Canon(txn.igs2[cursor]) # cursor

\* C26: the turn of the fix-up loop on a record under a wrong key removes
\* the entry under that key; if the canonical key is occupied at that moment
\* its entry is left as it is and the record is dropped; if it is free the
\* record's stored object is put there; no other entry changes, so no
\* existing entry is ever overwritten.
C26_ExistingWins ==
    [][(OnStaleRecord /\ pc' \in {"v8_scan", "v8_commit"}) =>
          LET new_key == Canon(txn.igs2[cursor])
          IN  /\ txn.igs2'[cursor] = None
              /\ txn.igs2'[new_key] = IF txn.igs2[new_key] # None
                                         THEN txn.igs2[new_key]
                                         ELSE txn.igs2[cursor]
              /\ \A k \in Keys \ {cursor, new_key} : txn.igs2'[k] = txn.igs2[k]
              /\ UNCHANGED persisted]_vars

\* C26 witness: the record of session 1 stood under key 1 and its canonical
\* key 2 was held by a record of session 2; the pass has removed the entry
\* under key 1, left key 2 as it was and moved on to it.
C26_Witness ==
    /\ pc = "v8_scan"
    /\ cursor = 2
    /\ IsRecord(igs2[1]) /\ igs2[1].pickled_session.lk = 1 /\ Canon(igs2[1]) = 2
    /\ IsRecord(igs2[2]) /\ igs2[2].pickled_session.lk = 2
    /\ txn.igs2[1] = None
    /\ txn.igs2[2] = igs2[2]

\* The sessions that have a record in table t.
SessionsIn(t) == {t[k].pickled_session.lk : k \in {x \in Keys : IsRecord(t[x])}}

\* C27, as claimed: every session with a record in the new store before the
\* fix-up pass has a record in it when the pass commits, also when the key
\* of a record under a wrong key is the canonical key of another session.
C27_AsClaimed ==
    pc = "v8_commit" => SessionsIn(igs2) \subseteq SessionsIn(txn.igs2)

\* C27, amended: when no canonical key is the canonical or the legacy key
\* of another session, every session with a record in the new store before
\* the fix-up pass has a record in it when the pass commits.
C27_NoSessionLost ==
    (pc = "v8_commit" /\ NoCanonicalCollision /\ NoCrossCollision)
        => SessionsIn(igs2) \subseteq SessionsIn(txn.igs2)

\* C27 witness: under a store cipher, records of every session stood under
\* their legacy keys; the pass has come to its end with every session still
\* in the table, under its canonical key.
C27_Witness ==
    /\ pc = "v8_commit"
    /\ NoCanonicalCollision /\ NoCrossCollision
    /\ \A lk \in LogicalKeys :
          /\ LegacyKey(lk) # CanonicalKey(lk)
          /\ IsRecord(igs2[LegacyKey(lk)])
          /\ igs2[CanonicalKey(lk)] = None
          /\ IsRecord(txn.igs2[CanonicalKey(lk)])
    /\ SessionsIn(txn.igs2) = LogicalKeys

\* C28: throughout the fix-up pass and at its commit, every entry of the
\* table is equal, stored object and flag, to an entry the table had when
\* the pass started, and the table has no more entries than it had.
C28_ValuesUnchanged ==
    pc \in {"v8_scan", "v8_commit"} =>
        /\ \A k \in KeysOf(txn.igs2) : \E j \in KeysOf(igs2) : txn.igs2[k] = igs2[j]
        /\ Count(txn.igs2) <= Count(igs2)

\* C28 witness: a record of a backed-up session (needs_backup false) has
\* been moved from its legacy key to its free canonical key, the same
\* object under the new key, the number of entries unchanged.
C28_Witness ==
    /\ pc = "v8_commit"
    /\ Count(txn.igs2) = Count(igs2)
    /\ \E lk \in LogicalKeys :
          /\ LegacyKey(lk) # CanonicalKey(lk)
          /\ IsRecord(igs2[LegacyKey(lk)])
          /\ igs2[LegacyKey(lk)].pickled_session.lk = lk
          /\ ~igs2[LegacyKey(lk)].needs_backup
          /\ igs2[CanonicalKey(lk)] = None
          /\ txn.igs2[CanonicalKey(lk)] = igs2[LegacyKey(lk)]
          /\ txn.igs2[LegacyKey(lk)] = None

RECURSIVE fixup_turns(_, _)
\* The number of turns the loop of prepare_data_for_v8 takes from batch
\* state t on.
fixup_turns(c, t) ==
    IF t.err \/ t.cursor = 0 THEN 0 ELSE 1 + fixup_turns(c, v8_record(c, t))

\* C29: the scan of the fix-up pass comes to an end although it inserts
\* into the table it scans: the cursor always stands on an entry and only
\* moves forward through the finite key space; an entry the pass has
\* inserted ahead of the cursor is, when the cursor reaches it, under its
\* canonical key and left as it is; and the loop takes at most twice as
\* many turns as the table had entries.
C29_ScanTerminates ==
    [][/\ pc = "v8_scan" =>
             /\ cursor \in KeysOf(txn.igs2)
             /\ pc' = "v8_scan" => cursor' > cursor
       /\ (pc = "v8_scan" /\ igs2[cursor] = None) =>
             /\ Canon(txn.igs2[cursor]) = cursor
             /\ pc' \in {"v8_scan", "v8_commit"} => txn' = txn
       /\ pc = "v8_open" =>
             fixup_turns(codec, [igs1 |-> igs1, igs2 |-> igs2,
                                 cursor |-> NextKey(igs2, 0), err |-> FALSE])
               <= 2 * Count(igs2)]_vars

\* C29 witness: the cursor stands on a record the pass has itself inserted,
\* under its canonical key, ahead of where the record was found.
C29_Witness ==
    /\ pc = "v8_scan"
    /\ igs2[cursor] = None
    /\ IsRecord(txn.igs2[cursor])
    /\ \E k \in Keys :
          /\ k < cursor
          /\ igs2[k] = txn.igs2[cursor]
          /\ txn.igs2[k] = None

\* C30: for a store found below version 2 (absent, or at version 1) schema
\* step 2 discards every legacy record: the legacy store is empty when
\* version 6 is committed and the new store is empty from then on, at
\* version 8 in particular.  For a store found at version 2..5 the upgrade
\* to 6 keeps every legacy record, and the upgrade to 7 deletes the legacy
\* store only when it holds none.
C30_StepTwoDestructive ==
    /\ (store0.version < 2 /\ version >= 6) =>
          /\ seen6 = EmptyTable
          /\ igs1 = EmptyTable
          /\ igs2 = EmptyTable
    /\ (store0.version < 2 /\ pc = "v6_upgrading") => txn.igs1 = EmptyTable
    /\ (store0.version \in 2..5 /\ pc = "v6_upgrading") => txn.igs1 = igs1
    /\ (store0.version \in 2..5 /\ version >= 6) => seen6 = store0.igs1
    /\ pc = "v7_upgrading" => (igs1 = EmptyTable /\ txn.igs2 = igs2)

\* C30 witness: a version-1 store with a legacy record of every session has
\* been returned at version 8 with an empty new store.
C30_Witness ==
    /\ pc = "done"
    /\ version = 8
    /\ store0.version = 1
    /\ Count(store0.igs1) = NumSessions
    /\ \A k \in Keys : store0.igs1[k] # Corrupt
    /\ igs2 = EmptyTable

\* C31: on a store persisted at a version above 8 no step of a call changes
\* version, catalog or records; the call goes from reading the version
\* straight to the final open, with no phase entered, no transaction
\* started and nothing committed; the final open fails and the call returns
\* the error, never success.
C31_NewerStoreRejected ==
    [][version > 8 =>
          /\ UNCHANGED persisted
          /\ PhaseOf(pc') \in {0, 6}
          /\ pc' # "done"
          /\ txn' = NoTxn
          /\ log' = <<>>
          /\ (pc = "final" /\ pc' \notin {"final", "idle"}) =>
                (pc' = "error" /\ failed' = "final")]_vars

\* C31 witness: a call on a version-9 store with records has failed at the
\* final open and the store is as it was.
C31_Witness ==
    /\ pc = "error"
    /\ failed = "final"
    /\ old_version = 9
    /\ version = 9
    /\ Stored = store0
    /\ Count(igs2) = NumSessions

\* Schema step 5 applied to the persisted store.
StepV5 == migrate_stores_to_v5(Catalog)

\* C32, as claimed: for a store below version 5, whichever of the three
\* superseded stores it has, step 5 succeeds and leaves none of them.
C32_AsClaimed ==
    (pc = "to_v6" /\ version < 5) =>
        /\ ~StepV5.err
        /\ StepV5.stores \cap SupersededStores = {}

\* C32, amended: step 5 looks for outgoing_secret_requests only.  If that
\* store is there, the step deletes all three and fails when one of the
\* other two is missing; if it is not there, the step succeeds and leaves
\* the other two where they are.  None of the three exists after the step
\* when all three or none were there; an upgrade that gets past the step
\* has the superseded stores it found without outgoing_secret_requests, and
\* none otherwise.
C32_DropsAllOrNothing ==
    /\ (pc = "to_v6" /\ version < 5) =>
          /\ "outgoing_secret_requests" \notin stores =>
                (~StepV5.err /\ StepV5.stores = stores \cup {"gossip_requests"})
          /\ SupersededStores \subseteq stores =>
                /\ ~StepV5.err
                /\ StepV5.stores = (stores \ SupersededStores) \cup {"gossip_requests"}
          /\ ("outgoing_secret_requests" \in stores /\ ~(SupersededStores \subseteq stores))
                => StepV5.err
    /\ (pc = "v6_upgrading" /\ version < 5) =>
          /\ "gossip_requests" \in txn.stores
          /\ txn.stores \cap SupersededStores =
                IF "outgoing_secret_requests" \in stores
                  THEN {} ELSE stores \cap SupersededStores
          /\ "outgoing_secret_requests" \in stores => SupersededStores \subseteq stores

\* C32 witness: the upgrade of a store that had unsent_secret_requests
\* without outgoing_secret_requests has got past step 5 with that store
\* still in the catalog.
C32_Witness ==
    /\ pc = "v6_upgrading"
    /\ version = 4
    /\ "outgoing_secret_requests" \notin stores
    /\ "unsent_secret_requests" \in stores
    /\ "gossip_requests" \in txn.stores
    /\ "unsent_secret_requests" \in txn.stores

\* The batch and cursor the Data Migrator's loop body starts a record with.
Batch == [igs1 |-> txn.igs1, igs2 |-> txn.igs2, cursor |-> cursor, err |-> FALSE]

\* C33, as claimed: in a turn of the Data Migrator that moves a record, the
\* first call removes the record from the legacy table while the new table
\* does not have it yet, the second call inserts it, the third advances.
C33_AsClaimed ==
    [][(pc = "v7_scan" /\ pc' \in {"v7_scan", "v7_commit"}) =>
          LET key == cursor
              tr  == v7_calls(Batch)
          IN  /\ tr[1].igs1[key] = None /\ tr[1].igs2[key] = None
              /\ tr[2].igs1[key] = None /\ tr[2].igs2[key] # None
              /\ tr[2].cursor = key
              /\ tr[3].cursor # key]_vars

\* C33, amended: in a turn of the Data Migrator that moves a record, the
\* first call inserts the re-encoded record into the new table while the
\* legacy table still has the original, the second call deletes the
\* original from the legacy table, the third advances the cursor; the
\* batch after the turn is the batch after the third call.
C33_InsertDeleteAdvance ==
    [][(pc = "v7_scan" /\ pc' \in {"v7_scan", "v7_commit"}) =>
          LET key   == cursor
              value == txn.igs1[key]
              tr    == v7_calls(Batch)
          IN  /\ tr[1].igs2[key] = IdbObject(value) /\ tr[1].igs1[key] = value
              /\ tr[1].cursor = key
              /\ tr[2].igs1[key] = None /\ tr[2].igs2 = tr[1].igs2
              /\ tr[2].cursor = key
              /\ tr[3].cursor = NextKey(tr[2].igs1, key)
              /\ tr[3].igs1 = tr[2].igs1 /\ tr[3].igs2 = tr[2].igs2
              /\ txn'.igs1 = tr[3].igs1 /\ txn'.igs2 = tr[3].igs2
              /\ cursor' = tr[3].cursor]_vars

\* C33 witness: the Data Migrator has moved all records but the last and
\* its cursor is on the last one, which decodes.
C33_Witness ==
    /\ pc = "v7_scan"
    /\ cursor # 0
    /\ txn.igs1[cursor] \notin {None, Corrupt}
    /\ Count(txn.igs1) = 1
    /\ Count(txn.igs2) = NumSessions - 1
    /\ NumSessions > 1

====
